---- MODULE Spec2Model ----
(***************************************************************************)
(* Model of pixivutil-lrr-updater (src/main.py): the tag sanitizer, the    *)
(* per-archive metadata resolution and update with its retry loop, and the *)
(* run over the untagged archives.                                         *)
(*                                                                         *)
(* Python strings are sequences of one-character strings, so that          *)
(* str.split, str.strip, str.isdigit, int(), str(), str.replace and re.sub *)
(* are computed character by character as the interpreter computes them.   *)
(***************************************************************************)
EXTENDS Integers, Sequences, FiniteSets, TLC

(* ------------------------------------------------------------------ *)
(* Bounds of the model.                                                *)
(* ------------------------------------------------------------------ *)

\* Longest list of untagged archives the remote returns.
MaxArchives == 2

\* Longest input text handed to sanitize_tag in SanitizeSpec.
MaxLen == 4

(* ------------------------------------------------------------------ *)
(* Python string primitives.                                           *)
(* ------------------------------------------------------------------ *)

Digits == <<"0", "1", "2", "3", "4", "5", "6", "7", "8", "9">>

DigitChars == {Digits[i] : i \in 1..10}

\* Value of one decimal digit character.
DigitVal(c) == (CHOOSE i \in 1..10 : Digits[i] = c) - 1

\* s[n+1:]
Drop(s, n) == SubSeq(s, n + 1, Len(s))

\* s.startswith(p)
StartsWith(s, p) == Len(s) >= Len(p) /\ SubSeq(s, 1, Len(p)) = p

\* str.replace(old, new): left to right, non-overlapping, one pass.
RECURSIVE str_replace(_, _, _)
str_replace(s, old, new) ==
    IF s = <<>> THEN <<>>
    ELSE IF StartsWith(s, old) THEN new \o str_replace(Drop(s, Len(old)), old, new)
    ELSE <<Head(s)>> \o str_replace(Tail(s), old, new)

\* str.split(sep) with the part being collected in cur.
RECURSIVE split_from(_, _, _)
split_from(s, sep, cur) ==
    IF s = <<>> THEN <<cur>>
    ELSE IF StartsWith(s, sep) THEN <<cur>> \o split_from(Drop(s, Len(sep)), sep, <<>>)
    ELSE split_from(Tail(s), sep, Append(cur, Head(s)))

\* str.split(sep): the list of parts, always at least one.
str_split(s, sep) == split_from(s, sep, <<>>)

RECURSIVE lstrip(_)
lstrip(s) == IF s # <<>> /\ Head(s) = " " THEN lstrip(Tail(s)) ELSE s

RECURSIVE rstrip(_)
rstrip(s) ==
    IF s # <<>> /\ s[Len(s)] = " " THEN rstrip(SubSeq(s, 1, Len(s) - 1)) ELSE s

\* str.strip()
str_strip(s) == rstrip(lstrip(s))

\* str.isdigit(): non-empty and every character a digit.
isdigit(s) == s # <<>> /\ \A i \in 1..Len(s) : s[i] \in DigitChars

\* int(s) of a digit string.
RECURSIVE int_of(_)
int_of(s) ==
    IF s = <<>> THEN 0
    ELSE 10 * int_of(SubSeq(s, 1, Len(s) - 1)) + DigitVal(s[Len(s)])

\* str(n) of a non-negative integer.
RECURSIVE str_of(_)
str_of(n) == IF n < 10 THEN <<Digits[n + 1]>> ELSE str_of(n \div 10) \o <<Digits[(n % 10) + 1]>>

(* ------------------------------------------------------------------ *)
(* sanitize_tag                                                        *)
(* ------------------------------------------------------------------ *)

\* The character class of the re.sub pattern.
Reserved == {"\"", "?", "*", "%", "$", ":"}

\* re.sub(r'["?*%$:]', '', s)
strip_reserved(s) == SelectSeq(s, LAMBDA c : c \notin Reserved)

\* sanitized.replace('_', ' ')
replace_underscore(s) == str_replace(s, <<"_">>, <<" ">>)

\* sanitized.replace(' -', ' ')
replace_space_dash(s) == str_replace(s, <<" ", "-">>, <<" ">>)

sanitize_tag(text) == replace_space_dash(replace_underscore(strip_reserved(text)))

(* ------------------------------------------------------------------ *)
(* Literal text of the program.                                        *)
(* ------------------------------------------------------------------ *)

\* "pixiv_"
S_pixiv == <<"p", "i", "x", "i", "v", "_">>

\* "source:https://pixiv.net/artworks/"
S_source == <<"s", "o", "u", "r", "c", "e", ":", "h", "t", "t", "p", "s", ":", "/", "/", "p", "i", "x", "i", "v", ".", "n", "e", "t", "/", "a", "r", "t", "w", "o", "r", "k", "s", "/">>

\* "pixiv_user_id:"
S_user == <<"p", "i", "x", "i", "v", "_", "u", "s", "e", "r", "_", "i", "d", ":">>

\* "artist:"
S_artist == <<"a", "r", "t", "i", "s", "t", ":">>

\* "date_created:"
S_created == <<"d", "a", "t", "e", "_", "c", "r", "e", "a", "t", "e", "d", ":">>

\* "date_uploaded:"
S_uploaded == <<"d", "a", "t", "e", "_", "u", "p", "l", "o", "a", "d", "e", "d", ":">>

TaskResult == {"SUCCESS", "PIXIVUTIL_NO_METADATA"}

required_tables ==
    << "pixiv_master_image", "pixiv_manga_image", "pixiv_date_info",
       "pixiv_image_to_tag", "pixiv_master_member", "pixiv_master_tag",
       "pixiv_tag_translation" >>

RequiredTableSet == {required_tables[i] : i \in 1..Len(required_tables)}

(* ------------------------------------------------------------------ *)
(* The relational store the runs read (read-only input).               *)
(*   image 1: member 7, one tag without 'en' translation, date row     *)
(*   image 2: member 8, who has no member row                          *)
(*   image 4: member 7, a translated tag, a tag of reserved characters *)
(*            only, no date row                                        *)
(*   image 3: no row                                                   *)
(* ------------------------------------------------------------------ *)

pixiv_master_image ==
    { [image_id |-> 1, member_id |-> 7, title |-> <<"T">>, caption |-> <<"C">>],
      [image_id |-> 2, member_id |-> 8, title |-> <<"U">>, caption |-> <<"D">>],
      [image_id |-> 4, member_id |-> 7, title |-> <<"V">>, caption |-> <<>>] }

pixiv_master_member ==
    { [member_id |-> 7, name |-> <<"F", "_", "b">>] }

pixiv_image_to_tag ==
    { [image_id |-> 1, tag_id |-> <<"s">>],
      [image_id |-> 4, tag_id |-> <<"a", "_", "b">>],
      [image_id |-> 4, tag_id |-> <<":">>] }

pixiv_tag_translation ==
    { [tag_id |-> <<"a", "_", "b">>, translation_type |-> "en",
       translation |-> <<"x", ":", "y", " ", "-", "z">>],
      [tag_id |-> <<"s">>, translation_type |-> "ja", translation |-> <<"z", "z">>] }

pixiv_date_info ==
    { [image_id |-> 1, created_date_epoch |-> 10, uploaded_date_epoch |-> 20] }

\* cursor.fetchone(): a sequence holding the row, or the empty sequence (None).
fetchone(rows) == IF rows = {} THEN <<>> ELSE <<CHOOSE r \in rows : TRUE>>

select_master_image(id) == fetchone({r \in pixiv_master_image : r.image_id = id})

select_member(mid) == fetchone({r \in pixiv_master_member : r.member_id = mid})

select_i2t(id) == {r.tag_id : r \in {x \in pixiv_image_to_tag : x.image_id = id}}

\* The translation query without its translation_type = 'en' condition.
select_any_translation(tag_id) ==
    fetchone({r \in pixiv_tag_translation : r.tag_id = tag_id})

select_en_translation(tag_id) ==
    fetchone({r \in pixiv_tag_translation :
                  r.translation_type = "en" /\ r.tag_id = tag_id})

select_date_info(id) == fetchone({r \in pixiv_date_info : r.image_id = id})

(* ------------------------------------------------------------------ *)
(* What the remote archive service can answer.                         *)
(* ------------------------------------------------------------------ *)

ArcIds == 1..MaxArchives

\* Archive lists the remote can return: each archive named once, the ids
\* running upwards from the lowest or downwards from the highest.
ArchiveLists ==
    { [i \in 1..n |-> i] : n \in 0..MaxArchives }
    \cup { [i \in 1..n |-> MaxArchives + 1 - i] : n \in 0..MaxArchives }

\* Filenames of archives on the remote.
Filenames ==
    { <<"p", "i", "x", "i", "v", "_", "1">>,
      <<"p", "i", "x", "i", "v", "_", "2">>,
      <<"p", "i", "x", "i", "v", "_", "3">>,
      <<"p", "i", "x", "i", "v", "_", "1", "_", "p", "0", ".", "j", "p", "g">>,
      <<"a", "b", "c">>,
      <<"x", " ", "p", "i", "x", "i", "v", "_", " ", "0", "4", " ">>,
      <<"p", "i", "x", "i", "v", "_">>,
      <<"p", "i", "x", "i", "v", "_", "3", "p", "i", "x", "i", "v", "_", "1">> }

\* Current tag strings of archives on the remote: "" and " k ,d:5".
TagStrings ==
    { <<>>, <<" ", "k", " ", ",", "d", ":", "5">> }

(* ------------------------------------------------------------------ *)
(* State.                                                              *)
(* ------------------------------------------------------------------ *)

VARIABLES
    pc,              \* where the run stands
    error,           \* message kind of the exception raised, "" if none
    tables,          \* tables present in the sqlite database
    tb_idx,          \* position of the required_tables loop
    arcids,          \* response.data of get_untagged_archives
    idx,             \* position of the loop over arcids
    result_mapping,  \* outcome kind -> list of arcids
    run_result,      \* <<mapping>> once update_lrr_metadata has returned
    results_file,    \* <<mapping>> once main has written results/update-job-*.json
    response,        \* <<[filename, tags]>> answered by get_archive_metadata
    pixiv_id,        \* the parsed image id, -1 before parsing
    master_row,      \* fetchone() of pixiv_master_image
    member_row,      \* fetchone() of pixiv_master_member
    tag_list,        \* set(tag_list) of line 118
    retry_count,
    tts,             \* seconds of the pending sleep
    result,          \* TaskResult returned by update_archive_metadata, "" before
    session_calls,   \* get_shinobu_status calls issued
    tables_checked,  \* required tables found so far, in order
    list_calls,      \* get_untagged_archives calls issued
    gotten,          \* arcids get_archive_metadata was called for
    attempted,       \* arcids update_archive_metadata (remote) was called for
    applied,         \* arcid -> times the remote wrote its metadata
    acked,           \* arcid -> update calls answered with success
    log,             \* update calls and sleeps of the current archive, in order
    sent,            \* the request of each update call of the current archive
    san_text,        \* SanitizeSpec: the text sanitize_tag is applied to
    san_out          \* SanitizeSpec: results of the successive applications

ctl_vars == <<pc, error>>

pre_vars == <<tables, tb_idx, session_calls, tables_checked>>

list_vars == <<arcids, list_calls>>

loop_vars == <<idx, result_mapping, run_result, results_file>>

local_vars == <<response, pixiv_id, master_row, member_row, tag_list, retry_count, tts, result>>

remote_vars == <<gotten, attempted, applied, acked>>

trace_vars == <<log, sent>>

san_vars == <<san_text, san_out>>

run_vars == <<ctl_vars, pre_vars, list_vars, loop_vars, local_vars, remote_vars, trace_vars>>

vars == <<run_vars, san_vars>>

max_retries == 3

\* State before main awaits update_lrr_metadata, for one database.
RunInit(tbs) ==
    /\ pc = "session"
    /\ error = ""
    /\ tables = tbs
    /\ tb_idx = 1
    /\ arcids = <<>>
    /\ idx = 1
    /\ result_mapping = <<>>
    /\ run_result = <<>>
    /\ results_file = <<>>
    /\ response = <<>>
    /\ pixiv_id = -1
    /\ master_row = <<>>
    /\ member_row = <<>>
    /\ tag_list = {}
    /\ retry_count = 0
    /\ tts = 0
    /\ result = ""
    /\ session_calls = 0
    /\ tables_checked = <<>>
    /\ list_calls = 0
    /\ gotten = {}
    /\ attempted = {}
    /\ applied = [a \in ArcIds |-> 0]
    /\ acked = [a \in ArcIds |-> 0]
    /\ log = <<>>
    /\ sent = <<>>

Init ==
    /\ \E tbs \in SUBSET RequiredTableSet : RunInit(tbs)
    /\ san_text = <<>>
    /\ san_out = <<>>

\* raise Exception(...)
Raise(kind) == pc' = "raised" /\ error' = kind

(* ------------------------------------------------------------------ *)
(* update_lrr_metadata: validation stage.                              *)
(* ------------------------------------------------------------------ *)

\* get_shinobu_status answers without error.
SessionOk ==
    /\ pc = "session"
    /\ session_calls' = session_calls + 1
    /\ pc' = "tables"
    /\ UNCHANGED <<error, tables, tb_idx, tables_checked, list_vars, loop_vars,
                   local_vars, remote_vars, trace_vars, san_vars>>

\* get_shinobu_status answers with an error.
SessionErr ==
    /\ pc = "session"
    /\ session_calls' = session_calls + 1
    /\ Raise("ApiKeyInvalid")
    /\ UNCHANGED <<tables, tb_idx, tables_checked, list_vars, loop_vars,
                   local_vars, remote_vars, trace_vars, san_vars>>

\* A table check whose result is not looked at.
CheckTable_unchecked ==
    /\ pc = "tables"
    /\ tb_idx <= Len(required_tables)
    /\ tables_checked' = Append(tables_checked, required_tables[tb_idx])
    /\ tb_idx' = tb_idx + 1
    /\ UNCHANGED <<ctl_vars, tables, session_calls, list_vars, loop_vars, local_vars,
                   remote_vars, trace_vars, san_vars>>

\* One iteration of the loop over required_tables.
CheckTable ==
    /\ pc = "tables"
    /\ tb_idx <= Len(required_tables)
    /\ IF required_tables[tb_idx] \in tables
       THEN /\ tables_checked' = Append(tables_checked, required_tables[tb_idx])
            /\ tb_idx' = tb_idx + 1
            /\ UNCHANGED ctl_vars
       ELSE /\ Raise("RequiredTableMissing")
            /\ UNCHANGED <<tb_idx, tables_checked>>
    /\ UNCHANGED <<tables, session_calls, list_vars, loop_vars, local_vars,
                   remote_vars, trace_vars, san_vars>>

\* get_untagged_archives answers with a list.
ListOk ==
    /\ pc = "tables"
    /\ tb_idx > Len(required_tables)
    /\ list_calls' = list_calls + 1
    /\ \E l \in ArchiveLists : arcids' = l
    /\ pc' = "loop"
    /\ UNCHANGED <<error, pre_vars, loop_vars, local_vars, remote_vars,
                   trace_vars, san_vars>>

\* get_untagged_archives answers with an error.
ListErr ==
    /\ pc = "tables"
    /\ tb_idx > Len(required_tables)
    /\ list_calls' = list_calls + 1
    /\ Raise("ListFailed")
    /\ UNCHANGED <<arcids, pre_vars, loop_vars, local_vars, remote_vars,
                   trace_vars, san_vars>>

(* ------------------------------------------------------------------ *)
(* update_archive_metadata: resolution.                                *)
(* ------------------------------------------------------------------ *)

\* The archive the loop is at.
arcid == arcids[idx]

\* get_archive_metadata answers with the archive's filename and tags.
GetMetadataOk ==
    /\ pc = "loop"
    /\ idx <= Len(arcids)
    /\ gotten' = gotten \cup {arcid}
    /\ \E f \in Filenames, t \in TagStrings :
           response' = <<[filename |-> f, tags |-> t]>>
    /\ log' = <<>>
    /\ sent' = <<>>
    /\ pc' = "parse"
    /\ UNCHANGED <<error, pre_vars, list_vars, loop_vars, pixiv_id, master_row,
                   member_row, tag_list, retry_count, tts, result, attempted,
                   applied, acked, san_vars>>

\* get_archive_metadata answers with an error.
GetMetadataErr ==
    /\ pc = "loop"
    /\ idx <= Len(arcids)
    /\ gotten' = gotten \cup {arcid}
    /\ log' = <<>>
    /\ sent' = <<>>
    /\ Raise("GetMetadataFailed")
    /\ UNCHANGED <<pre_vars, list_vars, loop_vars, local_vars, attempted, applied,
                   acked, san_vars>>

\* filename.split("pixiv_")[1].strip(), the isdigit test and int().
ParseFilename ==
    /\ pc = "parse"
    /\ LET parts == str_split(response[1].filename, S_pixiv)
       IN  IF Len(parts) < 2
           THEN Raise("IndexError") /\ UNCHANGED pixiv_id
           ELSE LET id == str_strip(parts[2])
                IN  IF ~isdigit(id)
                    THEN Raise("InvalidPixivId") /\ UNCHANGED pixiv_id
                    ELSE /\ pixiv_id' = int_of(id)
                         /\ pc' = "image"
                         /\ UNCHANGED error
    /\ UNCHANGED <<pre_vars, list_vars, loop_vars, response, master_row, member_row,
                   tag_list, retry_count, tts, result, remote_vars, trace_vars,
                   san_vars>>

\* A missing image row raised like a missing member row.
LookupImage_raise ==
    /\ pc = "image"
    /\ master_row' = select_master_image(pixiv_id)
    /\ IF master_row' = <<>>
       THEN Raise("NoImage")
       ELSE pc' = "member" /\ UNCHANGED error
    /\ UNCHANGED <<pre_vars, list_vars, loop_vars, response, pixiv_id, member_row,
                   tag_list, retry_count, tts, result, remote_vars, trace_vars,
                   san_vars>>

\* The pixiv_master_image query and the early return.
LookupImage ==
    /\ pc = "image"
    /\ master_row' = select_master_image(pixiv_id)
    /\ IF master_row' = <<>>
       THEN result' = "PIXIVUTIL_NO_METADATA" /\ pc' = "record"
       ELSE pc' = "member" /\ UNCHANGED result
    /\ UNCHANGED <<error, pre_vars, list_vars, loop_vars, response, pixiv_id,
                   member_row, tag_list, retry_count, tts, remote_vars,
                   trace_vars, san_vars>>

\* A missing member row returned as "no metadata" like a missing image row.
LookupMember_skip ==
    /\ pc = "member"
    /\ member_row' = select_member(master_row[1].member_id)
    /\ IF member_row' = <<>>
       THEN result' = "PIXIVUTIL_NO_METADATA" /\ pc' = "record"
       ELSE pc' = "tags" /\ UNCHANGED result
    /\ UNCHANGED <<error, pre_vars, list_vars, loop_vars, response, pixiv_id,
                   master_row, tag_list, retry_count, tts, remote_vars, trace_vars,
                   san_vars>>

\* The pixiv_master_member query and its check.
LookupMember ==
    /\ pc = "member"
    /\ member_row' = select_member(master_row[1].member_id)
    /\ IF member_row' = <<>>
       THEN Raise("NoMember")
       ELSE pc' = "tags" /\ UNCHANGED error
    /\ UNCHANGED <<pre_vars, list_vars, loop_vars, response, pixiv_id, master_row,
                   tag_list, retry_count, tts, result, remote_vars, trace_vars,
                   san_vars>>

\* A tag list started empty instead of from the archive's current tags.
current_tags_dropped(tags) == {}

\* [tag.strip() for tag in tags.split(",")]
current_tags(tags) ==
    LET parts == str_split(tags, <<",">>)
    IN  {str_strip(parts[i]) : i \in DOMAIN parts}

\* The entries appended for the tag links of the image and their translations.
link_tags(id) ==
    {sanitize_tag(t) : t \in select_i2t(id)}
    \cup {sanitize_tag(select_en_translation(t)[1].translation) :
              t \in {x \in select_i2t(id) : select_en_translation(x) # <<>>}}

\* The entries appended when a pixiv_date_info row exists.
date_tags(id) ==
    LET date_row == select_date_info(id)
    IN  IF date_row = <<>> THEN {}
        ELSE { S_created \o str_of(date_row[1].created_date_epoch),
               S_uploaded \o str_of(date_row[1].uploaded_date_epoch) }

\* set(tag_list) as built from line 76 to line 118.
resolve_tags(tags, row, name, id) ==
    current_tags(tags)
    \cup { S_source \o str_of(row.image_id),
           S_user \o str_of(row.member_id),
           S_artist \o sanitize_tag(name) }
    \cup link_tags(id)
    \cup date_tags(id)

\* The remaining queries, the tag list and the start of the retry loop.
BuildTags ==
    /\ pc = "tags"
    /\ tag_list' = resolve_tags(response[1].tags, master_row[1], member_row[1].name,
                                pixiv_id)
    /\ retry_count' = 0
    /\ pc' = "update"
    /\ UNCHANGED <<error, pre_vars, list_vars, loop_vars, response, pixiv_id,
                   master_row, member_row, tts, result, remote_vars, trace_vars,
                   san_vars>>

(* ------------------------------------------------------------------ *)
(* update_archive_metadata: the update and its retry loop.             *)
(* ------------------------------------------------------------------ *)

\* A request whose tags are put together again from the remote's tag string on
\* every retry, without the entries resolved from the database.
update_request_rebuilt ==
    [arcid |-> arcid, title |-> master_row[1].title,
     tags |-> IF retry_count = 0 THEN tag_list ELSE current_tags(response[1].tags),
     summary |-> master_row[1].caption]

\* UpdateArchiveMetadataRequest(arcid, title, tags, summary)
update_request ==
    [arcid |-> arcid, title |-> master_row[1].title, tags |-> tag_list,
     summary |-> master_row[1].caption]

\* A delay that grows by two seconds a retry instead of doubling.
backoff_linear(rc) == 2 * (rc + 1)

\* tts = 2 ** (retry_count+1)
backoff(rc) == 2 ^ (rc + 1)

\* A retry test that never gives up.
exhausted_never(rc) == FALSE

\* if retry_count > max_retries
exhausted(rc) == rc > max_retries

\* One update_archive_metadata call goes out and ends with outcome out;
\* wrote tells whether the remote wrote the metadata.
Call(out, wrote) ==
    /\ log' = Append(log, [ev |-> "update", out |-> out, tts |-> 0])
    /\ sent' = Append(sent, update_request)
    /\ attempted' = attempted \cup {arcid}
    /\ applied' = IF wrote THEN [applied EXCEPT ![arcid] = @ + 1] ELSE applied
    /\ acked' = IF out = "ok" THEN [acked EXCEPT ![arcid] = @ + 1] ELSE acked

\* The branch shared by the lock response and the network exception.
RetryOrRaise(kind) ==
    IF exhausted(retry_count)
    THEN Raise(kind) /\ UNCHANGED tts
    ELSE tts' = backoff(retry_count) /\ pc' = "sleep" /\ UNCHANGED error

\* A success answer that falls into the retry branch instead of the break.
UpdateOk_retry ==
    /\ pc = "update"
    /\ Call("ok", TRUE)
    /\ RetryOrRaise("PersistentLock")
    /\ UNCHANGED <<pre_vars, list_vars, loop_vars, response, pixiv_id, master_row,
                   member_row, tag_list, retry_count, result, gotten, san_vars>>

\* The call answers without error: break, return TaskResult.SUCCESS.
UpdateOk ==
    /\ pc = "update"
    /\ Call("ok", TRUE)
    /\ result' = "SUCCESS"
    /\ pc' = "record"
    /\ UNCHANGED <<error, pre_vars, list_vars, loop_vars, response, pixiv_id,
                   master_row, member_row, tag_list, retry_count, tts, gotten,
                   san_vars>>

\* The call answers with status 423.
UpdateLocked ==
    /\ pc = "update"
    /\ Call("locked", FALSE)
    /\ RetryOrRaise("PersistentLock")
    /\ UNCHANGED <<pre_vars, list_vars, loop_vars, response, pixiv_id, master_row,
                   member_row, tag_list, retry_count, result, gotten, san_vars>>

\* An error answer of any status handled like the lock status.
UpdateRejected_retry ==
    /\ pc = "update"
    /\ Call("rejected", FALSE)
    /\ RetryOrRaise("UpdateFailed")
    /\ UNCHANGED <<pre_vars, list_vars, loop_vars, response, pixiv_id, master_row,
                   member_row, tag_list, retry_count, result, gotten, san_vars>>

\* The call answers with another error status.
UpdateRejected ==
    /\ pc = "update"
    /\ Call("rejected", FALSE)
    /\ Raise("UpdateFailed")
    /\ UNCHANGED <<pre_vars, list_vars, loop_vars, local_vars, gotten, san_vars>>

\* A network failure handled with a retry count of its own: the network
\* failures of the archive so far, whatever the lock answers were.
UpdateNetErr_own_count ==
    /\ pc = "update"
    /\ \E wrote \in BOOLEAN : Call("neterr", wrote)
    /\ LET net_count == Len(SelectSeq(log, LAMBDA e : e.ev = "update" /\ e.out = "neterr"))
       IN  IF exhausted(net_count)
           THEN Raise("NetworkError") /\ UNCHANGED tts
           ELSE tts' = backoff(net_count) /\ pc' = "sleep" /\ UNCHANGED error
    /\ UNCHANGED <<pre_vars, list_vars, loop_vars, response, pixiv_id, master_row,
                   member_row, tag_list, retry_count, result, gotten, san_vars>>

\* The call ends in a connection error or a timeout; the request may have
\* been lost, or written by the remote with the answer lost.
UpdateNetErr ==
    /\ pc = "update"
    /\ \E wrote \in BOOLEAN : Call("neterr", wrote)
    /\ RetryOrRaise("NetworkError")
    /\ UNCHANGED <<pre_vars, list_vars, loop_vars, response, pixiv_id, master_row,
                   member_row, tag_list, retry_count, result, gotten, san_vars>>

\* await asyncio.sleep(tts); retry_count += 1; continue
Sleep ==
    /\ pc = "sleep"
    /\ log' = Append(log, [ev |-> "sleep", out |-> "", tts |-> tts])
    /\ retry_count' = retry_count + 1
    /\ pc' = "update"
    /\ UNCHANGED <<error, pre_vars, list_vars, loop_vars, response, pixiv_id,
                   master_row, member_row, tag_list, tts, result, remote_vars,
                   sent, san_vars>>

(* ------------------------------------------------------------------ *)
(* update_lrr_metadata: the loop over the archives.                    *)
(* ------------------------------------------------------------------ *)

\* An assignment of a fresh one-element list instead of an append.
append_result_overwrite(m, key, a) ==
    [k \in DOMAIN m \cup {key} |-> IF k = key THEN <<a>> ELSE m[k]]

\* An insert at the head of the list instead of an append.
append_result_front(m, key, a) ==
    IF key \in DOMAIN m
    THEN [m EXCEPT ![key] = <<a>> \o @]
    ELSE [k \in DOMAIN m \cup {key} |-> IF k = key THEN <<a>> ELSE m[k]]

\* result_mapping[key].append(a), the key added on first use.
append_result(m, key, a) ==
    IF key \in DOMAIN m
    THEN [m EXCEPT ![key] = Append(@, a)]
    ELSE [k \in DOMAIN m \cup {key} |-> IF k = key THEN <<a>> ELSE m[k]]

\* update_archive_metadata has returned: the loop body after the await.
Record ==
    /\ pc = "record"
    /\ result_mapping' = append_result(result_mapping, result, arcid)
    /\ idx' = idx + 1
    /\ pc' = "loop"
    /\ response' = <<>>
    /\ pixiv_id' = -1
    /\ master_row' = <<>>
    /\ member_row' = <<>>
    /\ tag_list' = {}
    /\ retry_count' = 0
    /\ tts' = 0
    /\ result' = ""
    /\ UNCHANGED <<error, pre_vars, list_vars, run_result, results_file,
                   remote_vars, trace_vars, san_vars>>

\* return result_mapping
Return ==
    /\ pc = "loop"
    /\ idx > Len(arcids)
    /\ run_result' = <<result_mapping>>
    /\ pc' = "returned"
    /\ UNCHANGED <<error, pre_vars, list_vars, idx, result_mapping, results_file,
                   local_vars, remote_vars, trace_vars, san_vars>>

\* main: json.dump of the mapping update_lrr_metadata returned.
WriteResults ==
    /\ pc = "returned"
    /\ results_file' = run_result
    /\ pc' = "written"
    /\ UNCHANGED <<error, pre_vars, list_vars, idx, result_mapping, run_result,
                   local_vars, remote_vars, trace_vars, san_vars>>

\* A loop body that catches the exception and goes on with the next archive.
Propagate_swallow ==
    /\ pc = "raised"
    /\ pc' = "loop"
    /\ idx' = idx + 1
    /\ UNCHANGED <<error, pre_vars, list_vars, result_mapping, run_result,
                   results_file, local_vars, remote_vars, trace_vars, san_vars>>

\* An exception leaves update_archive_metadata and update_lrr_metadata: no
\* frame on its way handles it.
Propagate ==
    /\ pc = "raised"
    /\ pc' = "aborted"
    /\ UNCHANGED <<error, pre_vars, list_vars, loop_vars, local_vars, remote_vars,
                   trace_vars, san_vars>>

Next ==
    \/ SessionOk
    \/ SessionErr
    \/ CheckTable
    \/ ListOk
    \/ ListErr
    \/ GetMetadataOk
    \/ GetMetadataErr
    \/ ParseFilename
    \/ LookupImage
    \/ LookupMember
    \/ BuildTags
    \/ UpdateOk
    \/ UpdateLocked
    \/ UpdateRejected
    \/ UpdateNetErr
    \/ Sleep
    \/ Record
    \/ Return
    \/ WriteResults
    \/ Propagate

Spec == Init /\ [][Next]_vars

\* asyncio.run(main()): the event loop resumes the one coroutine whenever the
\* call, query or sleep it awaits has completed, and each of them completes.
FairSpec == Spec /\ WF_vars(Next)

(* ------------------------------------------------------------------ *)
(* sanitize_tag applied to arbitrary text, and again to its own result. *)
(* ------------------------------------------------------------------ *)

\* Space, hyphen, underscore, two reserved characters and a letter.
SanAlphabet == {" ", "-", "_", ":", "?", "a"}

SanTexts == UNION {[1..n -> SanAlphabet] : n \in 0..MaxLen}

SanInit ==
    /\ RunInit(RequiredTableSet)
    /\ san_text \in SanTexts
    /\ san_out = <<>>

\* sanitize_tag(text), then sanitize_tag of what it returned.
SanitizeCall ==
    /\ Len(san_out) < 2
    /\ san_out' = Append(san_out,
                         sanitize_tag(IF san_out = <<>> THEN san_text
                                      ELSE san_out[Len(san_out)]))
    /\ UNCHANGED <<san_text, run_vars>>

SanNext == SanitizeCall

SanitizeSpec == SanInit /\ [][SanNext]_vars

(* ------------------------------------------------------------------ *)
(* Properties.                                                         *)
(* ------------------------------------------------------------------ *)

\* The list recorded under an outcome kind, empty while the key is absent.
Bucket(key) == IF key \in DOMAIN result_mapping THEN result_mapping[key] ELSE <<>>

InBucket(key, a) == \E i \in DOMAIN Bucket(key) : Bucket(key)[i] = a

\* The update calls of the current archive, in order, and their outcomes.
Updates == SelectSeq(log, LAMBDA e : e.ev = "update")

Outs == [i \in 1..Len(Updates) |-> Updates[i].out]

Sleeps == SelectSeq(log, LAMBDA e : e.ev = "sleep")

Locks(k) == [i \in 1..k |-> "locked"]

ArchiveFatal ==
    {"GetMetadataFailed", "IndexError", "InvalidPixivId", "NoMember",
     "UpdateFailed", "PersistentLock", "NetworkError"}

PreconditionFatal == {"ApiKeyInvalid", "RequiredTableMissing"}

\* C1: with max_retries = 3 one archive gets at most 4 update attempts, and a
\* fourth consecutive lock answer ends in the persistent-lock error at once
\* (no sleep, no fifth attempt).
C1_AtMostThreeRetries ==
    /\ Len(Updates) <= max_retries + 1
    /\ (Outs = Locks(4) /\ log[Len(log)].ev = "update") => error = "PersistentLock"

\* C2: k lock answers (k in 0..3) followed by a success give exactly k sleeps
\* of 2^1 .. 2^k seconds, each between a failed attempt and the next attempt,
\* exactly k+1 attempts, and the outcome Success.
C2_BackoffSchedule ==
    \A k \in 0..3 :
        Outs = Locks(k) \o <<"ok">> =>
            /\ Len(log) = 2 * k + 1
            /\ \A i \in 1..k :
                   /\ log[2 * i - 1].ev = "update"
                   /\ log[2 * i].ev = "sleep"
                   /\ log[2 * i].tts = 2 ^ i
            /\ log[2 * k + 1].ev = "update"
            /\ Len(Sleeps) = k
            /\ error = ""
            /\ \/ pc = "record" /\ result = "SUCCESS"
               \/ /\ pc \in {"loop", "returned", "written"}
                  /\ Bucket("SUCCESS") # <<>>
                  /\ Bucket("SUCCESS")[Len(Bucket("SUCCESS"))] = arcids[idx - 1]

\* C2 witness: three lock answers, then the success, just returned.
C2_Witness ==
    /\ Outs = <<"locked", "locked", "locked", "ok">>
    /\ pc = "record"
    /\ [i \in 1..Len(Sleeps) |-> Sleeps[i].tts] = <<2, 4, 8>>

\* C3 as stated: the remote writes each archive's metadata at most once in a
\* run, and exactly once for every archive classified Success.
C3_WrittenAtMostOnce ==
    \A a \in ArcIds :
        /\ applied[a] <= 1
        /\ InBucket("SUCCESS", a) => applied[a] = 1

\* C3 amended: at most one update call per archive is answered with success,
\* exactly one for every archive classified Success; the remote writes the
\* metadata at least once for a Success archive and at most once per attempt
\* (max_retries + 2 attempts), with the request of the first attempt.
C3_AckedAtMostOnce ==
    /\ \A a \in ArcIds :
           /\ acked[a] <= 1
           /\ applied[a] <= max_retries + 2
           /\ InBucket("SUCCESS", a) => acked[a] = 1 /\ applied[a] >= 1
           /\ a \notin attempted => applied[a] = 0
    /\ Len(sent) <= max_retries + 2
    /\ \A i \in DOMAIN sent : sent[i] = sent[1]

\* C3 witness: an archive classified Success that the remote wrote twice (a
\* timeout on a request already written, then the retry).
C3_Witness ==
    \E a \in ArcIds :
        InBucket("SUCCESS", a) /\ applied[a] = 2 /\ acked[a] = 1

\* C4: a fatal error while processing an archive aborts the run: the error
\* propagates, no call is made for any later archive, nothing is returned.
C4_FatalAbortsRun ==
    error \in ArchiveFatal =>
        /\ pc \in {"raised", "aborted"}
        /\ run_result = <<>>
        /\ idx <= Len(arcids)
        /\ \A j \in (idx + 1)..Len(arcids) :
               arcids[j] \notin gotten /\ arcids[j] \notin attempted
        /\ ~InBucket("SUCCESS", arcid) /\ ~InBucket("PIXIVUTIL_NO_METADATA", arcid)

\* C4 witness: the run aborted on retries exhausted with an archive left.
C4_Witness ==
    /\ pc = "aborted"
    /\ error = "PersistentLock"
    /\ idx < Len(arcids)

\* C5 in every state: an archive whose image id has no pixiv_master_image row
\* comes back as PIXIVUTIL_NO_METADATA without an error and without an update
\* call, and no archive of the NoMetadata bucket was ever sent an update.
C5_Returned ==
    /\ (pc # "image" /\ pixiv_id # -1 /\ select_master_image(pixiv_id) = <<>>) =>
           /\ pc = "record"
           /\ result = "PIXIVUTIL_NO_METADATA"
           /\ error = ""
           /\ arcid \notin attempted
    /\ \A a \in ArcIds :
           InBucket("PIXIVUTIL_NO_METADATA", a) =>
               a \notin attempted /\ ~InBucket("SUCCESS", a)

\* C5 in every step: the lookup of a missing row returns, and the pipeline
\* appends the arcid to the NoMetadata bucket and moves to the next archive.
C5_Step ==
    /\ (pc = "image" /\ select_master_image(pixiv_id) = <<>>) =>
           (pc' = "record" /\ result' = "PIXIVUTIL_NO_METADATA" /\ error' = "")
    /\ (pc = "record" /\ result = "PIXIVUTIL_NO_METADATA") =>
           /\ pc' = "loop"
           /\ idx' = idx + 1
           /\ error' = ""
           /\ Bucket("PIXIVUTIL_NO_METADATA")' =
                  Append(Bucket("PIXIVUTIL_NO_METADATA"), arcid)
           /\ Bucket("SUCCESS")' = Bucket("SUCCESS")

\* C5: an archive whose image id has no pixiv_master_image row yields the
\* NoMetadata outcome without raising and without an update call; its arcid
\* is appended to the NoMetadata bucket and the run goes on to the next
\* archive.
C5_NoMetadataSkips == []C5_Returned /\ [][C5_Step]_vars

\* C5 witness: the first archive was skipped as NoMetadata and the second
\* archive's metadata has been fetched.
C5_Witness ==
    /\ Len(arcids) = 2
    /\ Bucket("PIXIVUTIL_NO_METADATA") = <<arcids[1]>>
    /\ idx = 2
    /\ pc = "parse"
    /\ arcids[1] \notin attempted

\* C6: an archive whose image row exists but whose member has no
\* pixiv_master_member row ends in a fatal error, not in NoMetadata: no update
\* call is made for it and its arcid is in neither bucket.
C6_MissingMemberFatal ==
    /\ ( /\ master_row # <<>>
         /\ pc # "member"
         /\ select_member(master_row[1].member_id) = <<>> ) =>
           /\ error = "NoMember"
           /\ pc \in {"raised", "aborted"}
           /\ result = ""
           /\ run_result = <<>>
           /\ arcid \notin attempted
           /\ ~InBucket("SUCCESS", arcid)
           /\ ~InBucket("PIXIVUTIL_NO_METADATA", arcid)
    /\ error = "NoMember" =>
           master_row # <<>> /\ select_member(master_row[1].member_id) = <<>>

\* C6 witness: the run aborted on an image whose member row is missing.
C6_Witness ==
    /\ pc = "aborted"
    /\ error = "NoMember"
    /\ master_row # <<>>
    /\ master_row[1].member_id = 8

\* Whether any call of the archive phase has been issued.
ArchiveCallIssued == list_calls > 0 \/ gotten # {} \/ attempted # {}

\* C7: a failed session check or an absent required table fails the run
\* before any listUntaggedArchiveIds, getMetadata or updateMetadata call; a
\* run that issues such a call has passed the session check and found all
\* seven tables, in order, before.
C7_PreconditionsFirst ==
    /\ error = "ApiKeyInvalid" => ~ArchiveCallIssued /\ tables_checked = <<>>
    /\ ~(RequiredTableSet \subseteq tables) => ~ArchiveCallIssued
    /\ error = "RequiredTableMissing" => ~ArchiveCallIssued
    /\ ArchiveCallIssued =>
           /\ session_calls = 1
           /\ tables_checked = required_tables
           /\ Len(tables_checked) = 7
           /\ \A i \in 1..7 : tables_checked[i] \in tables
           /\ error \notin PreconditionFatal
    /\ (error \in PreconditionFatal) => (pc \in {"raised", "aborted"} /\ run_result = <<>>)

\* C7 witness: an archive is being processed after all seven table checks.
C7_Witness ==
    /\ gotten # {}
    /\ attempted # {}
    /\ session_calls = 1
    /\ tables_checked = required_tables

\* The digits that open a text.
RECURSIVE digit_run(_)
digit_run(s) ==
    IF s # <<>> /\ Head(s) \in DigitChars THEN <<Head(s)>> \o digit_run(Tail(s))
    ELSE <<>>

\* The text behind the first "pixiv_" of a filename; <<>> when there is none.
RECURSIVE after_pixiv(_)
after_pixiv(s) ==
    IF s = <<>> THEN <<>>
    ELSE IF StartsWith(s, S_pixiv) THEN Drop(s, Len(S_pixiv))
    ELSE after_pixiv(Tail(s))

\* C8: image_id is the run of digits that follows "pixiv_" in the filename
\* (pixiv_1_p0.jpg resolves to 1 and goes on to the image lookup); the
\* bad-filename error is raised only when "pixiv_" is absent or not followed
\* by a digit.
C8_DigitRunParsed ==
    (response # <<>> /\ pc # "parse") =>
        LET run == digit_run(after_pixiv(response[1].filename))
        IN  /\ run # <<>> =>
                   /\ error \notin {"IndexError", "InvalidPixivId"}
                   /\ pixiv_id = int_of(run)
            /\ error \in {"IndexError", "InvalidPixivId"} => run = <<>>

\* The rows the request of the current archive is resolved from.
image_rows == {r \in pixiv_master_image : r.image_id = pixiv_id}

\* The tag set C9 describes, read off the tables entry by entry.
C9_ExpectedTags(img) ==
    LET cur == str_split(response[1].tags, <<",">>)
        links == {l \in pixiv_image_to_tag : l.image_id = img.image_id}
        trans == {t \in pixiv_tag_translation :
                      /\ t.translation_type = "en"
                      /\ \E l \in links : l.tag_id = t.tag_id}
        dates == {d \in pixiv_date_info : d.image_id = img.image_id}
        members == {m \in pixiv_master_member : m.member_id = img.member_id}
    IN  {str_strip(cur[i]) : i \in DOMAIN cur}
        \cup {S_source \o str_of(img.image_id)}
        \cup {S_user \o str_of(img.member_id)}
        \cup {S_artist \o sanitize_tag(m.name) : m \in members}
        \cup {sanitize_tag(l.tag_id) : l \in links}
        \cup {sanitize_tag(t.translation) : t \in trans}
        \cup {S_created \o str_of(d.created_date_epoch) : d \in dates}
        \cup {S_uploaded \o str_of(d.uploaded_date_epoch) : d \in dates}

C10_SanitizeIdempotent ==
    Len(san_out) = 2 => san_out[2] = san_out[1]

\* The text rule 3 of sanitize_tag works on: rules 1 and 2 applied.
san_mid == replace_underscore(strip_reserved(san_text))

\* Number of hyphens of s that do not stand directly behind a space.
kept_hyphens(s) ==
    Cardinality({i \in 1..Len(s) : s[i] = "-" /\ (i = 1 \/ s[i - 1] # " ")})

hyphens(s) == Cardinality({i \in 1..Len(s) : s[i] = "-"})

\* C11: the output of sanitize_tag holds no hyphen directly preceded by a
\* space, and every hyphen that is not preceded by a space after rules 1 and
\* 2 is preserved in the output.
C11_NoSpaceHyphen ==
    san_out # <<>> =>
        /\ \A i \in 1..(Len(san_out[1]) - 1) :
               ~(san_out[1][i] = " " /\ san_out[1][i + 1] = "-")
        /\ hyphens(san_out[1]) = kept_hyphens(san_mid)

\* C12: an error answer whose status is not 423 fails the archive at once,
\* whatever retry_count is: it is the last event of the archive, no sleep and
\* no further update call follows it.
C12_RejectedIsFinal ==
    \A i \in DOMAIN log :
        (log[i].ev = "update" /\ log[i].out = "rejected") =>
            /\ i = Len(log)
            /\ error = "UpdateFailed"
            /\ pc \in {"raised", "aborted"}
            /\ Len(sent) = Len(Updates)
            /\ tts = (IF retry_count = 0 THEN 0 ELSE 2 ^ retry_count)

\* C12 witness: the rejection came on the third attempt, after two retries.
C12_Witness ==
    /\ Outs = <<"locked", "neterr", "rejected">>
    /\ retry_count = 2
    /\ pc = "aborted"
    /\ error = "UpdateFailed"

\* C13 as stated: an update call is only made for an archive whose current
\* tag string, as read by get_archive_metadata in the same step, is empty.
C13_OnlyEmptyTagLists ==
    (sent # <<>> /\ response # <<>>) => response[1].tags = <<>>

\* C13 amended: an update call is only made for an archive that the untagged
\* list of this run names and whose metadata was fetched in the same step;
\* the archive's current tags are not tested but carried over: each of them,
\* trimmed, is an entry of the tag set sent.
C13_ListedAndTagsKept ==
    /\ attempted \subseteq gotten
    /\ gotten \subseteq {arcids[j] : j \in 1..Len(arcids)}
    /\ (sent # <<>> /\ response # <<>>) =>
           /\ arcid \in gotten
           /\ LET cur == str_split(response[1].tags, <<",">>)
              IN  \A i \in DOMAIN sent, j \in DOMAIN cur :
                      str_strip(cur[j]) \in sent[i].tags

\* C13 witness: an archive whose current tags are " k ,d:5" was sent an
\* update that keeps k and d:5.
C13_Witness ==
    /\ sent # <<>>
    /\ response # <<>>
    /\ response[1].tags = <<" ", "k", " ", ",", "d", ":", "5">>
    /\ {<<"k">>, <<"d", ":", "5">>} \subseteq sent[1].tags

\* Place of an archive in the enumerated list.
PosOf(a) == CHOOSE j \in 1..Len(arcids) : arcids[j] = a

\* A bucket names archives of the list, each once, in the order of the list.
InListOrder(b) ==
    /\ \A p \in DOMAIN b : \E j \in 1..Len(arcids) : arcids[j] = b[p]
    /\ \A p, q \in DOMAIN b : p < q => PosOf(b[p]) < PosOf(b[q])

\* C14: archives are processed one at a time in list order: no call goes out
\* for a later archive before the current one's outcome is recorded; every
\* processed archive is in exactly one bucket (Success iff its update call
\* succeeded, NoMetadata iff it was skipped), no unprocessed archive is in a
\* bucket, and each bucket is in enumeration order.
C14_SequentialLedger ==
    /\ DOMAIN result_mapping \subseteq TaskResult
    /\ InListOrder(Bucket("SUCCESS"))
    /\ InListOrder(Bucket("PIXIVUTIL_NO_METADATA"))
    /\ \A j \in 1..Len(arcids) :
           LET a == arcids[j]
           IN  /\ j < idx =>
                      /\ InBucket("SUCCESS", a) # InBucket("PIXIVUTIL_NO_METADATA", a)
                      /\ InBucket("SUCCESS", a) <=> acked[a] = 1
                      /\ InBucket("PIXIVUTIL_NO_METADATA", a) <=> a \notin attempted
                      /\ a \in gotten
               /\ j >= idx =>
                      /\ ~InBucket("SUCCESS", a)
                      /\ ~InBucket("PIXIVUTIL_NO_METADATA", a)
               /\ j > idx =>
                      a \notin gotten /\ a \notin attempted /\ applied[a] = 0
    /\ Len(Bucket("SUCCESS")) + Len(Bucket("PIXIVUTIL_NO_METADATA")) = idx - 1

\* C14 witness: the list <<2, 1>> was processed, archive 2 retried and
\* succeeded, then archive 1 succeeded: the Success bucket reads <<2, 1>>.
C14_Witness ==
    /\ arcids = <<2, 1>>
    /\ Bucket("SUCCESS") = <<2, 1>>
    /\ applied[2] >= 2
    /\ idx = 3

\* Whether a ledger (a sequence holding the mapping, empty if there is none)
\* reports archive a under the outcome kind key.
Reports(ledger, key, a) ==
    /\ ledger # <<>>
    /\ key \in DOMAIN ledger[1]
    /\ \E i \in DOMAIN ledger[1][key] : ledger[1][key][i] = a

\* C15 as stated: once the run has ended, every archive whose update call
\* succeeded is in the Success bucket of the ledger main wrote out, also when
\* a later archive ended in a fatal error.
C15_SuccessAlwaysReported ==
    pc \in {"written", "aborted"} =>
        \A a \in ArcIds : acked[a] >= 1 => Reports(results_file, "SUCCESS", a)

\* C15 amended: when the run returns, the ledger returned and written out by
\* main reports under Success exactly the archives whose update call
\* succeeded; when an archive ends in a fatal error nothing is returned or
\* written, whatever succeeded before.
C15_ReportedWhenReturned ==
    /\ pc \in {"returned", "written"} =>
           /\ run_result = <<result_mapping>>
           /\ \A a \in ArcIds : acked[a] >= 1 <=> Reports(run_result, "SUCCESS", a)
    /\ pc = "written" => results_file = run_result
    /\ pc # "written" => results_file = <<>>
    /\ pc \in {"raised", "aborted"} => run_result = <<>>

\* C15 witness: a run in which the update of every archive succeeded has
\* returned and main has written the ledger, which reports them all.
C15_Witness ==
    /\ pc = "written"
    /\ Len(arcids) = MaxArchives
    /\ \A a \in ArcIds : acked[a] = 1 /\ Reports(results_file, "SUCCESS", a)

\* The run has ended: main wrote the ledger, or the exception left main.
Final == pc \in {"written", "aborted"}

\* Steps one archive can take at most: five up to the first update call, an
\* update call and a sleep per retry, the last update call, the recording.
PerArchive == 2 * (max_retries + 1) + 7

\* Steps of the current archive already behind the run.
StepsUsed ==
    CASE pc = "loop" -> 0
      [] pc = "parse" -> 1
      [] pc = "image" -> 2
      [] pc = "member" -> 3
      [] pc = "tags" -> 4
      [] pc = "update" -> 5 + 2 * retry_count
      [] pc = "sleep" -> 6 + 2 * retry_count
      [] pc = "record" -> PerArchive - 1

\* An upper bound of the steps the run can still take.
StepsLeft ==
    CASE pc = "session" -> 4 + PerArchive * MaxArchives + Len(required_tables) + 1
      [] pc = "tables" ->
             3 + PerArchive * MaxArchives + (Len(required_tables) + 1 - tb_idx)
      [] pc \in {"loop", "parse", "image", "member", "tags", "update", "sleep", "record"} ->
             2 + PerArchive * (Len(arcids) + 1 - idx) - StepsUsed
      [] pc \in {"returned", "raised"} -> 1
      [] pc \in {"written", "aborted"} -> 0

\* C16 in every state: the steps left are bounded, one archive gets at most
\* max_retries + 2 update calls, and a run that has not ended can take a step.
C16_Bounded ==
    /\ StepsLeft >= 0
    /\ Len(Updates) <= max_retries + 2
    /\ retry_count <= max_retries + 1
    /\ Final \/ ENABLED Next
    /\ Final => ~ENABLED Next

\* C16: every run terminates: it eventually returns its ledger (which main
\* writes out) or aborts.  Each step lowers a bounded count of the steps left
\* and only an ended run cannot step, so the retry loop cannot spin: after at
\* most max_retries + 2 update calls an archive succeeds or fails fatally.
C16_Terminates ==
    /\ []C16_Bounded
    /\ [][StepsLeft' < StepsLeft]_vars
    /\ <>Final

\* C16 witness: every update call of an archive ended in a network failure;
\* after max_retries + 2 calls the run aborted.
C16_Witness ==
    /\ pc = "aborted"
    /\ error = "NetworkError"
    /\ Outs = [i \in 1..(max_retries + 2) |-> "neterr"]

(* ------------------------------------------------------------------ *)
(* C17                                                                 *)
(* ------------------------------------------------------------------ *)

\* The retry loop of the current archive is running.
InRetryLoop == pc \in {"update", "sleep"}

\* The request the values read before the loop make.
C17_Resolved ==
    [arcid |-> arcid, title |-> master_row[1].title,
     tags |-> resolve_tags(response[1].tags, master_row[1], member_row[1].name,
                           pixiv_id),
     summary |-> master_row[1].caption]

\* When the loop runs, both rows have been read and the tag set is built.
C17_ReadsDone ==
    InRetryLoop =>
        /\ master_row # <<>> /\ member_row # <<>>
        /\ tag_list = C17_Resolved.tags
        /\ \A i \in DOMAIN sent : sent[i] = C17_Resolved

\* A step of the loop leaves what was read and built alone, reads nothing from
\* the remote or the database, and sends, if it sends, the resolved request.
C17_Step ==
    /\ InRetryLoop =>
           /\ UNCHANGED <<pixiv_id, master_row, member_row, tag_list, arcids, idx,
                          result_mapping, tables, gotten, list_calls>>
           /\ sent' = sent \/ sent' = Append(sent, C17_Resolved)
           /\ retry_count' = retry_count \/ (pc = "sleep" /\ retry_count' = retry_count + 1)
    /\ sent' # sent /\ sent' # <<>> => pc = "update"

\* C17: all database reads and the tag-set construction of an archive are
\* complete before its first update attempt, every attempt of the archive
\* carries the same (arcid, title, tags, summary), and a step of the retry
\* loop changes only the retry counter and the delay (and the call it makes).
C17_RetryFrame == []C17_ReadsDone /\ [][C17_Step]_vars

\* C17 witness: a third attempt has gone out for an image with tag links, a
\* translation and an existing tag string, equal to the first.
C17_Witness ==
    /\ Len(sent) = 3
    /\ sent[3] = sent[1]
    /\ Cardinality(sent[1].tags) >= 6
    /\ retry_count = 2

(* ------------------------------------------------------------------ *)
(* C18                                                                 *)
(* ------------------------------------------------------------------ *)

\* The failed attempts of the current archive that were retried or are about
\* to be: lock answers and network failures alike.
Failures == SelectSeq(Updates, LAMBDA e : e.out \in {"locked", "neterr"})

\* C18: one counter per archive serves lock answers and network failures: the
\* n-th delay of an archive is 2^n seconds whatever the failures before it
\* were, the counter equals the number of delays taken so far, and the first
\* attempt of every archive is made with the counter at 0.
C18_SharedCounter ==
    /\ \A n \in 1..Len(Sleeps) : Sleeps[n].tts = 2 ^ n
    /\ InRetryLoop =>
           /\ retry_count = Len(Sleeps)
           /\ Updates = <<>> => retry_count = 0
           /\ pc = "sleep" =>
                  /\ Len(Failures) = retry_count + 1
                  /\ tts = 2 ^ Len(Failures)
           /\ pc = "update" => Len(Failures) = retry_count

\* C18 witness: the second archive of a run, after a first one that had a
\* failure, is about to take its third delay after a lock answer, a network
\* failure and a lock answer.
C18_Witness ==
    /\ idx = 2
    /\ applied[arcids[1]] >= 2
    /\ Outs = <<"locked", "neterr", "locked">>
    /\ [i \in 1..Len(Sleeps) |-> Sleeps[i].tts] = <<2, 4>>
    /\ pc = "sleep"
    /\ tts = 8

(* ------------------------------------------------------------------ *)
(* C19                                                                 *)
(* ------------------------------------------------------------------ *)

\* C19: every entry of the tag set of every update request is a non-empty
\* string, also for an archive whose tag string is empty and for an image
\* with a tag_id or a translation made of reserved characters only.
C19_NoEmptyTag ==
    \A i \in DOMAIN sent : \A t \in sent[i].tags : t # <<>>

====
